---- MODULE Spec2Model ----
(***************************************************************************)
(* kuserspace::List<T>: a doubly-linked list of shared_ptr/weak_ptr nodes  *)
(* guarded by one std::shared_mutex per list (src/lib/List.cpp,            *)
(* src/include/List.h).                                                    *)
(*                                                                         *)
(* The heap is a set of node records.  A node is alive while some strong   *)
(* reference (head, tail, a next link of an alive node, an iterator, a     *)
(* local of a running call) refers to it; a weak prev link to a node that  *)
(* died reads as null.  Each public call is an acquire step followed by a  *)
(* body step that ends with the release of the lock; between the two the   *)
(* caller is inside the call, holding the lock.                            *)
(***************************************************************************)
EXTENDS Integers, Sequences, FiniteSets, TLC

\* ------------------------------------------------------------------ bounds
MaxNodes == 3          \* node records that can be alive at once
MaxVal == 2            \* element values are 1..MaxVal
MaxCalls == 2          \* calls per thread in the concurrent specification
MaxDrift == 1          \* count is followed while within MaxDrift of 0..MaxNodes
MaxSeq == 4            \* calls made by the single caller
MaxInit == 2           \* longest list a behaviour starts from
MaxConcInit == 1       \* the same, where two threads call
POOL_SIZE == 2         \* NodeAllocator::POOL_SIZE, 1024 in the source, scaled down
MaxHeld == 3           \* handles of the allocator's user
MaxTasks == 2          \* monitoring tasks launched in a behaviour
MaxMonCalls == 2       \* calls of startContinuousMonitoring / stopMonitoring per thread

Nodes == 1..MaxNodes
Null == 0
Values == 1..MaxVal
Threads == {1, 2}
ListIds == {"A", "B", "C"}
NoThread == 0
Handles == 1..MaxHeld
Tasks == 1..MaxTasks
NoTask == 0

VARIABLES
    head,      \* List::head,  per list: a node or Null
    tail,      \* List::tail
    count,     \* List::count (size_t, kept as its signed residue: -1 is SIZE_MAX)
    next,      \* Node::next, strong
    prev,      \* Node::prev, weak
    data,      \* Node::data
    alive,     \* nodes whose strong reference count is positive
    it,        \* per thread: the Iterator the caller holds (Iterator::current)
    writer,    \* per list: the thread holding the shared_mutex exclusively
    readers,   \* per list: the threads holding it shared
    pc,        \* per thread: where the thread is
    op,        \* per thread: the call in progress, or the last one made
    result,    \* per thread: how the last call ended
    calls,     \* per thread: calls begun so far
    start,     \* the elements list A held when the behaviour began
    log,       \* the values passed to push_back so far, where that is recorded
    nodes,     \* NodeAllocator::nodes, the free set: a vector of nodes
    marked,    \* Node::marked
    held,      \* the nodes a user of the allocator holds, one per handle
    isUpdating,    \* Memory::isUpdating (std::atomic<bool>)
    updateFuture,  \* Memory::updateFuture: the task its shared state belongs to, or NoTask
    task,          \* per task launched by std::async: where it is
    stopReturned   \* a stopMonitoring call has returned with no startContinuousMonitoring
                   \* call under way, and none was made since

heapvars == <<head, tail, count, next, prev, data, alive, it>>
poolvars == <<nodes, marked, held>>
monvars == <<isUpdating, updateFuture, task, stopReturned>>
vars == <<head, tail, count, next, prev, data, alive, it, writer, readers, pc, op, result, calls, start, log,
          nodes, marked, held, isUpdating, updateFuture, task, stopReturned>>

\* The heap as one value, so that the helpers of List.cpp compose.
Cur == [head |-> head, tail |-> tail, count |-> count, next |-> next,
        prev |-> prev, data |-> data, alive |-> alive, it |-> it]

Commit(s) ==
    /\ head' = s.head
    /\ tail' = s.tail
    /\ count' = s.count
    /\ next' = s.next
    /\ prev' = s.prev
    /\ data' = s.data
    /\ alive' = s.alive
    /\ it' = s.it

\* ------------------------------------------------- shared_ptr / weak_ptr
\* Nodes some strong reference names: list heads and tails, iterators,
\* next links of alive nodes, and the locals `roots` of the running call.
Referenced(s, roots) ==
    (roots \cup {s.head[l] : l \in ListIds} \cup {s.tail[l] : l \in ListIds}
           \cup {s.it[t] : t \in Threads} \cup {s.next[n] : n \in s.alive}) \ {Null}

\* Destroy every node whose last strong reference is gone (its next link is
\* released with it, which can free the successor in turn); weak links to
\* destroyed nodes expire.  Cycles of next links keep their nodes alive.
RECURSIVE Destroy(_, _)
Destroy(s, dead) ==
    IF dead = {} THEN s
    ELSE LET n == CHOOSE m \in dead : TRUE
         IN Destroy([s EXCEPT !.alive = @ \ {n}, !.next[n] = Null, !.prev[n] = Null,
                              !.data[n] = 0],
                    dead \ {n})

RECURSIVE Expire(_, _)
Expire(s, weak) ==
    IF weak = {} THEN s
    ELSE LET n == CHOOSE m \in weak : TRUE
         IN Expire([s EXCEPT !.prev[n] = Null], weak \ {n})

RECURSIVE Collect(_, _)
Collect(s, roots) ==
    LET dead == s.alive \ Referenced(s, roots) IN
    IF dead = {}
    THEN Expire(s, {n \in s.alive : s.prev[n] # Null /\ s.prev[n] \notin s.alive})
    ELSE Collect(Destroy(s, dead), roots)

\* std::make_shared<Node>(value): a fresh record; the lowest free slot stands
\* for whatever address the allocator returns.
FreeNode(s) == CHOOSE n \in Nodes \ s.alive : \A m \in Nodes \ s.alive : n <= m
CanAllocate(s) == Nodes \ s.alive # {}

create_node(s, n, value) ==
    [s EXCEPT !.alive = s.alive \cup {n},
              !.data[n] = value,
              !.next[n] = Null,
              !.prev[n] = Null]

\* The values met following next from node n, for at most k steps.
RECURSIVE Walk(_, _, _)
Walk(s, n, k) ==
    IF n = Null \/ k = 0 THEN <<>> ELSE <<n>> \o Walk(s, s.next[n], k - 1)

\* Nodes reachable from node n by next links.
RECURSIVE ReachFrom(_, _, _)
ReachFrom(s, n, seen) ==
    IF n = Null \/ n \in seen THEN seen ELSE ReachFrom(s, s.next[n], seen \cup {n})

Linked(s, l) == ReachFrom(s, s.head[l], {})

\* ------------------------------------------------------ results of a call
Res(k, v) == [kind |-> k, val |-> v]
Void == Res("void", 0)
NoResult == Res("none", 0)
OutOfRange == Res("out_of_range", 0)      \* std::out_of_range("List is empty")
SystemError == Res("system_error", 0)     \* std::system_error, EDEADLK
IterTo(n) == Res("iter", n)
Bool(b) == Res("bool", IF b THEN 1 ELSE 0)

\* How the body of a call ends: it returns (or throws) and the lock guards
\* release; or it reaches a lock() of a mutex the calling thread already
\* holds; or it runs a loop that never ends.
Ret(s, r) == [kind |-> "return", s |-> s, res |-> r]
Relock(s) == [kind |-> "relock", s |-> s, res |-> NoResult]
Spin(s) == [kind |-> "spin", s |-> s, res |-> NoResult]

\* ------------------------------------------------------------- List.cpp
\* unlink_node: the caller has collected, so prev reads as lock() does.
unlink_node(s, l, node) ==
    LET p == s.prev[node]
        nx == s.next[node]
        s1 == IF p # Null THEN [s EXCEPT !.next[p] = nx]
                          ELSE [s EXCEPT !.head[l] = nx]
        s2 == IF nx # Null THEN [s1 EXCEPT !.prev[nx] = p]
                           ELSE [s1 EXCEPT !.tail[l] = p]
    IN [s2 EXCEPT !.next[node] = Null, !.prev[node] = Null]

push_front(s, l, value) ==
    LET node == FreeNode(s)
        s1 == create_node(s, node, value)
        s2 == [s1 EXCEPT !.next[node] = s.head[l]]
        s3 == IF s.head[l] # Null THEN [s2 EXCEPT !.prev[s.head[l]] = node]
                                  ELSE [s2 EXCEPT !.tail[l] = node]
    IN Ret([s3 EXCEPT !.head[l] = node, !.count[l] = s.count[l] + 1], Void)

\* push_back that leaves out tail->next = node: the new node hangs off tail only.
push_back_unlinked(s, l, value) ==
    LET node == FreeNode(s)
        s1 == create_node(s, node, value)
        s2 == [s1 EXCEPT !.prev[node] = s.tail[l]]
        s3 == IF s.tail[l] # Null THEN s2
                                  ELSE [s2 EXCEPT !.head[l] = node]
    IN Ret([s3 EXCEPT !.tail[l] = node, !.count[l] = s.count[l] + 1], Void)

push_back(s, l, value) ==
    LET node == FreeNode(s)
        s1 == create_node(s, node, value)
        s2 == [s1 EXCEPT !.prev[node] = s.tail[l]]
        s3 == IF s.tail[l] # Null THEN [s2 EXCEPT !.next[s.tail[l]] = node]
                                  ELSE [s2 EXCEPT !.head[l] = node]
    IN Ret([s3 EXCEPT !.tail[l] = node, !.count[l] = s.count[l] + 1], Void)

pop_front(s, l) ==
    IF s.head[l] = Null THEN Ret(s, OutOfRange)
    ELSE
    LET oldHead == s.head[l]
        s1 == [s EXCEPT !.head[l] = s.next[oldHead]]
        s2 == IF s1.head[l] # Null THEN [s1 EXCEPT !.prev[s1.head[l]] = Null]
                                   ELSE [s1 EXCEPT !.tail[l] = Null]
        s3 == unlink_node(Collect(s2, {oldHead}), l, oldHead)
    IN Ret([s3 EXCEPT !.count[l] = s3.count[l] - 1], Void)

pop_back(s, l) ==
    IF s.tail[l] = Null THEN Ret(s, OutOfRange)
    ELSE
    LET oldTail == s.tail[l]
        s1 == [s EXCEPT !.tail[l] = s.prev[oldTail]]
        s2 == IF s1.tail[l] # Null THEN [s1 EXCEPT !.next[s1.tail[l]] = Null]
                                   ELSE [s1 EXCEPT !.head[l] = Null]
        s3 == unlink_node(Collect(s2, {oldTail}), l, oldTail)
    IN Ret([s3 EXCEPT !.count[l] = s3.count[l] - 1], Void)

\* insert(pos, value): pos == end() calls push_back with the lock held.
insert(s, l, pos, value) ==
    IF pos = Null THEN Relock(s)
    ELSE
    LET node == FreeNode(s)
        s1 == create_node(s, node, value)
        s2 == [s1 EXCEPT !.next[node] = pos, !.prev[node] = s.prev[pos]]
        s3 == IF s.prev[pos] # Null THEN [s2 EXCEPT !.next[s.prev[pos]] = node]
                                   ELSE [s2 EXCEPT !.head[l] = node]
    IN Ret([s3 EXCEPT !.prev[pos] = node, !.count[l] = s.count[l] + 1], IterTo(node))

\* erase without the test of pos.current: end() is counted as an erased element.
erase_unguarded(s, l, pos) ==
    IF pos = Null THEN Ret([s EXCEPT !.count[l] = s.count[l] - 1], IterTo(Null))
    ELSE
    LET nx == s.next[pos]
        s1 == unlink_node(s, l, pos)
    IN Ret([s1 EXCEPT !.count[l] = s1.count[l] - 1], IterTo(nx))

erase(s, l, pos) ==
    IF pos = Null THEN Ret(s, IterTo(Null))
    ELSE
    LET nx == s.next[pos]
        s1 == unlink_node(s, l, pos)
    IN Ret([s1 EXCEPT !.count[l] = s1.count[l] - 1], IterTo(nx))

\* erase(first, last): the loop body calls erase(first) with the lock held.
erase_range(s, l, first, last) ==
    IF first # last THEN Relock(s) ELSE Ret(s, IterTo(last))

\* The loops of List.cpp follow next links, and a chain that has a cycle may
\* keep one running for ever.  A run that ends takes fewer than LoopFuel
\* iterations; one that uses them all never ends.
LoopFuel == 4 * (MaxNodes + 1)

RECURSIVE clear_loop(_, _)
clear_loop(s, l) ==
    IF s.head[l] = Null THEN s
    ELSE LET nx == s.next[s.head[l]]
             s1 == unlink_node(s, l, s.head[l])
         IN clear_loop(Collect([s1 EXCEPT !.head[l] = nx], {}), l)

\* clear that drops head and tail and leaves the nodes linked to each other.
clear_unlinked(s, l) ==
    Ret([s EXCEPT !.head[l] = Null, !.tail[l] = Null, !.count[l] = 0], Void)

clear(s, l) ==
    LET s1 == clear_loop(s, l)
    IN Ret([s1 EXCEPT !.tail[l] = Null, !.count[l] = 0], Void)

RECURSIVE reverse_loop(_, _, _)
reverse_loop(s, current, fuel) ==
    IF current = Null THEN Ret(s, Void)
    ELSE IF fuel = 0 THEN Spin(s)
    ELSE LET nx == s.next[current]
             s1 == [s EXCEPT !.next[current] = s.prev[current], !.prev[current] = nx]
         IN reverse_loop(Collect(s1, {nx}), nx, fuel - 1)

reverse(s, l) ==
    LET s1 == [s EXCEPT !.head[l] = s.tail[l], !.tail[l] = s.head[l]]
    IN reverse_loop(s1, s1.head[l], LoopFuel)

RECURSIVE unique_loop(_, _, _, _)
unique_loop(s, l, current, fuel) ==
    IF s.next[current] = Null THEN Ret(s, Void)
    ELSE IF fuel = 0 THEN Spin(s)
    ELSE IF s.data[current] = s.data[s.next[current]]
         THEN LET s1 == unlink_node(s, l, s.next[current])
                  s2 == [s1 EXCEPT !.count[l] = s1.count[l] - 1]
              IN unique_loop(Collect(s2, {current}), l, current, fuel - 1)
         ELSE unique_loop(s, l, s.next[current], fuel - 1)

unique(s, l) ==
    IF s.head[l] = Null THEN Ret(s, Void) ELSE unique_loop(s, l, s.head[l], LoopFuel)

\* remove(value) and remove_if(pred): P is the set of values to drop.
RECURSIVE remove_loop(_, _, _, _, _)
remove_loop(s, l, current, P, fuel) ==
    IF current = Null THEN Ret(s, Void)
    ELSE IF fuel = 0 THEN Spin(s)
    ELSE LET nx == s.next[current]
             s1 == IF s.data[current] \in P
                   THEN LET u == unlink_node(s, l, current)
                        IN [u EXCEPT !.count[l] = u.count[l] - 1]
                   ELSE s
         IN remove_loop(Collect(s1, {nx}), l, nx, P, fuel - 1)

remove_if(s, l, P) == remove_loop(s, l, s.head[l], P, LoopFuel)

remove(s, l, value) == remove_if(s, l, {value})

\* A range-for over the list ends only if the next chain from head does.
Acyclic(s, l) == Len(Walk(s, s.head[l], MaxNodes + 1)) <= MaxNodes

\* sort: copies the elements by iteration, then calls clear() with the lock held.
sort(s, l) == IF Acyclic(s, l) THEN Relock(s) ELSE Spin(s)

\* merge: thisIt advances while *otherIt >= *thisIt; the first insert(), or
\* other.clear() when other is empty, locks a mutex the caller holds.
RECURSIVE merge_advance(_, _, _, _)
merge_advance(s, thisIt, v, seen) ==
    IF thisIt = Null \/ v < s.data[thisIt] THEN Relock(s)
    ELSE IF thisIt \in seen THEN Spin(s)
    ELSE merge_advance(s, s.next[thisIt], v, seen \cup {thisIt})

merge(s, l, other) ==
    IF s.head[other] = Null THEN Relock(s)
    ELSE merge_advance(s, s.head[l], s.data[s.head[other]], {})

\* splice: other.empty() takes other's lock shared while it is held exclusively.
splice(s, l, pos, other) == Relock(s)

\* operator=(const List&) and operator=(List&&), this != &other: clear() is
\* called with thisLock held, before either list is read.
copy_assign(s, l, other) == Relock(s)

move_assign(s, l, other) == Relock(s)

\* List(const List& other): push_back of every element met from other.begin()
\* to other.end().  A chain that never reaches null is copied until memory
\* runs out, and no list is constructed.
RECURSIVE copy_loop(_, _, _)
copy_loop(s, l, current) ==
    IF current = Null THEN Ret(s, Void)
    ELSE copy_loop(push_back(s, l, s.data[current]).s, l, s.next[current])

copy_ctor(s, l, other) ==
    IF Acyclic(s, other) THEN copy_loop(s, l, s.head[other]) ELSE Spin(s)

front(s, l) ==
    IF s.head[l] = Null THEN Ret(s, OutOfRange)
    ELSE Ret(s, Res("value", s.data[s.head[l]]))

back(s, l) ==
    IF s.tail[l] = Null THEN Ret(s, OutOfRange)
    ELSE Ret(s, Res("value", s.data[s.tail[l]]))

\* try_*: the body after try_to_lock succeeded.
try_push_front(s, l, value) == Relock(s)
try_push_back(s, l, value) == Relock(s)
try_pop_front(s, l) == IF s.head[l] = Null THEN Ret(s, Bool(FALSE)) ELSE Relock(s)
try_pop_back(s, l) == IF s.tail[l] = Null THEN Ret(s, Bool(FALSE)) ELSE Relock(s)
\* The caller's `value` when try_pop_front / try_pop_back ends, having held
\* out at the call: it is assigned before pop_front() / pop_back() is called.
try_pop_front_value(s, l, out) == IF s.head[l] = Null THEN out ELSE s.data[s.head[l]]
try_pop_back_value(s, l, out) == IF s.tail[l] = Null THEN out ELSE s.data[s.tail[l]]
try_insert(s, l, pos, value) == Relock(s)
try_erase(s, l, pos) == IF pos = Null THEN Ret(s, Bool(FALSE)) ELSE Relock(s)

\* ------------------------------------------------------------ the calls
\* A call: the member function, the list it is called on, and its arguments.
Call(name, l, other, val, pos, last, P) ==
    [name |-> name, l |-> l, other |-> other, val |-> val, pos |-> pos, last |-> last, P |-> P]
NoCall == Call("none", "A", "A", 0, Null, Null, {})

Other(l) == IF l = "A" THEN "B" ELSE "A"

ExclusiveOps == {"push_front", "push_back", "pop_front", "pop_back", "insert", "erase",
                 "erase_range", "clear", "reverse", "unique", "remove", "remove_if", "sort"}
TwoListOps == {"merge", "splice"}
AssignOps == {"copy_assign", "move_assign"}
NoexceptOps == {"move_assign"}
SharedOps == {"front", "back"}
TryOps == {"try_push_front", "try_push_back", "try_pop_front", "try_pop_back",
           "try_insert", "try_erase"}

\* The code of the call c run on heap s, from the point where its lock guards
\* are constructed to the point where they are destroyed.
BodyOf(s, c) ==
    CASE c.name = "push_front" -> push_front(s, c.l, c.val)
      [] c.name = "push_back" -> push_back(s, c.l, c.val)
      [] c.name = "pop_front" -> pop_front(s, c.l)
      [] c.name = "pop_back" -> pop_back(s, c.l)
      [] c.name = "insert" -> insert(s, c.l, c.pos, c.val)
      [] c.name = "erase" -> erase(s, c.l, c.pos)
      [] c.name = "erase_range" -> erase_range(s, c.l, c.pos, c.last)
      [] c.name = "clear" -> clear(s, c.l)
      [] c.name = "reverse" -> reverse(s, c.l)
      [] c.name = "unique" -> unique(s, c.l)
      [] c.name = "remove" -> remove(s, c.l, c.val)
      [] c.name = "remove_if" -> remove_if(s, c.l, c.P)
      [] c.name = "sort" -> sort(s, c.l)
      [] c.name = "merge" -> merge(s, c.l, c.other)
      [] c.name = "splice" -> splice(s, c.l, c.pos, c.other)
      [] c.name = "copy_assign" -> copy_assign(s, c.l, c.other)
      [] c.name = "move_assign" -> move_assign(s, c.l, c.other)
      [] c.name = "copy_ctor" -> copy_ctor(s, c.l, c.other)
      [] c.name = "front" -> front(s, c.l)
      [] c.name = "back" -> back(s, c.l)
      [] c.name = "try_push_front" -> try_push_front(s, c.l, c.val)
      [] c.name = "try_push_back" -> try_push_back(s, c.l, c.val)
      [] c.name = "try_pop_front" -> try_pop_front(s, c.l)
      [] c.name = "try_pop_back" -> try_pop_back(s, c.l)
      [] c.name = "try_insert" -> try_insert(s, c.l, c.pos, c.val)
      [] c.name = "try_erase" -> try_erase(s, c.l, c.pos)

\* Calls that construct a node need a free record.
Allocates(c) ==
    \/ c.name \in {"push_front", "push_back"}
    \/ c.name = "insert" /\ c.pos # Null

\* An iterator argument the caller may pass: end(), or its iterator while the
\* node it refers to is linked in the list.
ValidPos(s, t, l) == {Null} \cup ({s.it[t]} \cap Linked(s, l))

\* The calls a caller can make on list l in heap s.
CallsOn(s, t, l) ==
    {Call(n, l, l, v, Null, Null, {}) : n \in {"push_front", "push_back", "remove"}, v \in Values}
    \cup {Call(n, l, l, 0, Null, Null, {}) :
            n \in {"pop_front", "pop_back", "clear", "reverse", "unique", "sort", "front", "back"}}
    \cup {Call("insert", l, l, v, p, Null, {}) : v \in Values, p \in ValidPos(s, t, l)}
    \cup {Call("erase", l, l, 0, p, Null, {}) : p \in ValidPos(s, t, l)}
    \cup UNION {{Call("erase_range", l, l, 0, p, q, {}) : q \in {p, Null}} : p \in ValidPos(s, t, l)}
    \cup {Call("remove_if", l, l, 0, Null, Null, P) : P \in SUBSET Values}
    \cup {Call("merge", l, Other(l), 0, Null, Null, {})}
    \cup {Call("splice", l, Other(l), 0, p, Null, {}) : p \in ValidPos(s, t, l)}

TryCallsOn(s, t, l) ==
    {Call(n, l, l, v, Null, Null, {}) : n \in {"try_push_front", "try_push_back"}, v \in Values}
    \cup {Call(n, l, l, 0, Null, Null, {}) : n \in {"try_pop_front", "try_pop_back"}}
    \cup {Call("try_insert", l, l, v, p, Null, {}) : v \in Values, p \in ValidPos(s, t, l)}
    \cup {Call("try_erase", l, l, 0, p, Null, {}) : p \in ValidPos(s, t, l)}

\* count can run away from the number of nodes; it is followed this far.
InBounds(s) == \A l \in ListIds : -MaxDrift <= s.count[l] /\ s.count[l] <= MaxNodes + MaxDrift

\* ------------------------------------------------------ std::shared_mutex
Free(l) == writer[l] = NoThread /\ readers[l] = {}
NoWriter(l) == writer[l] = NoThread

ReleaseAll(t) ==
    /\ writer' = [l \in ListIds |-> IF writer[l] = t THEN NoThread ELSE writer[l]]
    /\ readers' = [l \in ListIds |-> readers[l] \ {t}]

\* ------------------------------------------------------------ the steps
\* std::unique_lock lock(mutex): the caller waits until the mutex is free.
LockExclusive(t, c) ==
    /\ pc[t] = "idle"
    /\ c.name \in ExclusiveOps \cup TwoListOps
    /\ Allocates(c) => CanAllocate(Cur)
    /\ Free(c.l)
    /\ writer' = [writer EXCEPT ![c.l] = t]
    /\ pc' = [pc EXCEPT ![t] = IF c.name \in TwoListOps THEN "lock_other" ELSE "body"]
    /\ op' = [op EXCEPT ![t] = c]
    /\ result' = [result EXCEPT ![t] = NoResult]
    /\ UNCHANGED <<heapvars, readers>>

\* otherLock taken with try_to_lock and never tested: the body runs whether or
\* not other's mutex was free.
LockOther_untested(t) ==
    /\ pc[t] = "lock_other"
    /\ writer' = [writer EXCEPT ![op[t].other] = IF Free(op[t].other) THEN t ELSE @]
    /\ pc' = [pc EXCEPT ![t] = "body"]
    /\ UNCHANGED <<heapvars, readers, op, result>>

\* merge, splice: std::unique_lock otherLock(other.mutex), with this locked.
LockOther(t) ==
    /\ pc[t] = "lock_other"
    /\ Free(op[t].other)
    /\ writer' = [writer EXCEPT ![op[t].other] = t]
    /\ pc' = [pc EXCEPT ![t] = "body"]
    /\ UNCHANGED <<heapvars, readers, op, result>>

\* operator=, this != &other: std::unique_lock thisLock(mutex).
LockAssign(t, c) ==
    /\ pc[t] = "idle"
    /\ c.name \in AssignOps
    /\ c.l # c.other
    /\ Free(c.l)
    /\ writer' = [writer EXCEPT ![c.l] = t]
    /\ pc' = [pc EXCEPT ![t] = IF c.name = "copy_assign" THEN "lock_other_shared"
                                                          ELSE "lock_other"]
    /\ op' = [op EXCEPT ![t] = c]
    /\ result' = [result EXCEPT ![t] = NoResult]
    /\ UNCHANGED <<heapvars, readers>>

\* operator=, this == &other: return *this, no lock taken.
SelfAssign(t, c) ==
    /\ pc[t] = "idle"
    /\ c.name \in AssignOps
    /\ c.l = c.other
    /\ op' = [op EXCEPT ![t] = c]
    /\ result' = [result EXCEPT ![t] = Void]
    /\ pc' = [pc EXCEPT ![t] = "done"]
    /\ UNCHANGED <<heapvars, writer, readers>>

\* Copy assignment that goes on to its body with other's mutex not locked.
LockOtherShared_skipped(t) ==
    /\ pc[t] = "lock_other_shared"
    /\ pc' = [pc EXCEPT ![t] = "body"]
    /\ UNCHANGED <<heapvars, writer, readers, op, result>>

\* operator=(const List&): std::shared_lock otherLock(other.mutex), with this
\* locked.
LockOtherShared(t) ==
    /\ pc[t] = "lock_other_shared"
    /\ NoWriter(op[t].other)
    /\ readers' = [readers EXCEPT ![op[t].other] = @ \cup {t}]
    /\ pc' = [pc EXCEPT ![t] = "body"]
    /\ UNCHANGED <<heapvars, writer, op, result>>

\* List(const List& other) constructing list dst, a new object, from src:
\* std::shared_lock otherLock(other.mutex).  The nodes of the copy must fit.
CopyCall(dst, src) == Call("copy_ctor", dst, src, 0, Null, Null, {})

CopyLock(t, dst, src) ==
    /\ pc[t] = "idle"
    /\ dst # src
    /\ head[dst] = Null /\ tail[dst] = Null /\ count[dst] = 0 /\ Free(dst)
    /\ Acyclic(Cur, src) =>
          Len(Walk(Cur, head[src], MaxNodes + 1)) <= Cardinality(Nodes \ alive)
    /\ NoWriter(src)
    /\ readers' = [readers EXCEPT ![src] = @ \cup {t}]
    /\ pc' = [pc EXCEPT ![t] = "body"]
    /\ op' = [op EXCEPT ![t] = CopyCall(dst, src)]
    /\ result' = [result EXCEPT ![t] = NoResult]
    /\ UNCHANGED <<heapvars, writer>>

\* std::shared_lock lock(mutex)
LockShared(t, c) ==
    /\ pc[t] = "idle"
    /\ c.name \in SharedOps
    /\ NoWriter(c.l)
    /\ readers' = [readers EXCEPT ![c.l] = @ \cup {t}]
    /\ pc' = [pc EXCEPT ![t] = "body"]
    /\ op' = [op EXCEPT ![t] = c]
    /\ result' = [result EXCEPT ![t] = NoResult]
    /\ UNCHANGED <<heapvars, writer>>

\* std::unique_lock lock(mutex, std::try_to_lock) that owns the lock.
TryLockOwned(t, c) ==
    /\ pc[t] = "idle"
    /\ c.name \in TryOps
    /\ Free(c.l)
    /\ writer' = [writer EXCEPT ![c.l] = t]
    /\ pc' = [pc EXCEPT ![t] = "body"]
    /\ op' = [op EXCEPT ![t] = c]
    /\ result' = [result EXCEPT ![t] = NoResult]
    /\ UNCHANGED <<heapvars, readers>>

\* The blocking operation a try_* operation calls.
Blocking(c) ==
    [c EXCEPT !.name = CASE c.name = "try_push_front" -> "push_front"
                         [] c.name = "try_push_back" -> "push_back"
                         [] c.name = "try_pop_front" -> "pop_front"
                         [] c.name = "try_pop_back" -> "pop_back"
                         [] c.name = "try_insert" -> "insert"
                         [] c.name = "try_erase" -> "erase"
                         [] OTHER -> c.name]

\* try_to_lock on a held mutex with owns_lock() never tested, the operation
\* done on the fields directly: the list is changed under the holder's feet.
TryLockBusy_untested(t, c) ==
    /\ pc[t] = "idle"
    /\ c.name \in TryOps
    /\ ~Free(c.l)
    /\ LET o == BodyOf(Cur, Blocking(c)) IN
        IF o.kind = "return" /\ o.res.kind # "out_of_range"
               /\ (Allocates(Blocking(c)) => CanAllocate(Cur))
        THEN /\ Commit(Collect(o.s, {}))
             /\ result' = [result EXCEPT ![t] = Bool(TRUE)]
        ELSE /\ UNCHANGED heapvars
             /\ result' = [result EXCEPT ![t] = Bool(FALSE)]
    /\ op' = [op EXCEPT ![t] = c]
    /\ pc' = [pc EXCEPT ![t] = "done"]
    /\ UNCHANGED <<writer, readers>>

\* try_to_lock on a held mutex: !lock.owns_lock(), return false.
TryLockBusy(t, c) ==
    /\ pc[t] = "idle"
    /\ c.name \in TryOps
    /\ ~Free(c.l)
    /\ op' = [op EXCEPT ![t] = c]
    /\ result' = [result EXCEPT ![t] = Bool(FALSE)]
    /\ pc' = [pc EXCEPT ![t] = "done"]
    /\ UNCHANGED <<heapvars, writer, readers>>

\* What the caller does with a returned iterator: it keeps it.
Keep(s, t, r) == IF r.kind = "iter" THEN [s EXCEPT !.it[t] = r.val] ELSE s

\* The body runs to its return or throw; the lock guards release.
BodyReturn(t) ==
    /\ pc[t] = "body"
    /\ LET o == BodyOf(Cur, op[t]) IN
        /\ o.kind = "return"
        /\ InBounds(o.s)
        /\ Commit(Collect(Keep(o.s, t, o.res), {}))
        /\ result' = [result EXCEPT ![t] = o.res]
    /\ ReleaseAll(t)
    /\ pc' = [pc EXCEPT ![t] = "done"]
    /\ UNCHANGED op

\* The body locks a std::shared_mutex its thread holds: undefined behaviour.
\* With libstdc++ on glibc the lock fails with EDEADLK and std::system_error
\* is thrown through the call ...
BodyRelockThrows(t) ==
    /\ pc[t] = "body"
    /\ op[t].name \notin NoexceptOps
    /\ LET o == BodyOf(Cur, op[t]) IN
        /\ o.kind = "relock"
        /\ InBounds(o.s)
        /\ Commit(Collect(o.s, {}))
    /\ result' = [result EXCEPT ![t] = SystemError]
    /\ ReleaseAll(t)
    /\ pc' = [pc EXCEPT ![t] = "done"]
    /\ UNCHANGED op

\* ... which, leaving a function declared noexcept, is std::terminate ...
BodyRelockTerminates(t) ==
    /\ pc[t] = "body"
    /\ op[t].name \in NoexceptOps
    /\ LET o == BodyOf(Cur, op[t]) IN
        /\ o.kind = "relock"
        /\ InBounds(o.s)
        /\ Commit(Collect(o.s, {}))
    /\ result' = [result EXCEPT ![t] = SystemError]
    /\ pc' = [pc EXCEPT ![t] = "terminated"]
    /\ UNCHANGED <<writer, readers, op>>

\* ... and elsewhere the thread waits for itself for ever, the lock held.
BodyRelockHangs(t) ==
    /\ pc[t] = "body"
    /\ LET o == BodyOf(Cur, op[t]) IN
        /\ o.kind = "relock"
        /\ InBounds(o.s)
        /\ Commit(Collect(o.s, {}))
    /\ pc' = [pc EXCEPT ![t] = "hung"]
    /\ UNCHANGED <<writer, readers, op, result>>

\* The body runs a loop over a next chain that never reaches null.
BodySpins(t) ==
    /\ pc[t] = "body"
    /\ LET o == BodyOf(Cur, op[t]) IN
        /\ o.kind = "spin"
        /\ InBounds(o.s)
        /\ Commit(Collect(o.s, {}))
    /\ pc' = [pc EXCEPT ![t] = "hung"]
    /\ UNCHANGED <<writer, readers, op, result>>

\* begin(): Iterator(head), no lock taken (List.h).
Begin(t, l) ==
    /\ pc[t] = "idle"
    /\ Commit(Collect([Cur EXCEPT !.it[t] = head[l]], {}))
    /\ op' = [op EXCEPT ![t] = Call("begin", l, l, 0, Null, Null, {})]
    /\ result' = [result EXCEPT ![t] = IterTo(head[l])]
    /\ pc' = [pc EXCEPT ![t] = "done"]
    /\ UNCHANGED <<writer, readers>>

\* Iterator::operator++: current = current->next.
Advance(t) ==
    /\ pc[t] = "idle"
    /\ it[t] # Null
    /\ Commit(Collect([Cur EXCEPT !.it[t] = next[it[t]]], {}))
    /\ op' = [op EXCEPT ![t] = Call("advance", "A", "A", 0, Null, Null, {})]
    /\ result' = [result EXCEPT ![t] = IterTo(next[it[t]])]
    /\ pc' = [pc EXCEPT ![t] = "done"]
    /\ UNCHANGED <<writer, readers>>

\* List(List&& other), constructing list dst from src. No lock is taken; the
\* member initialisers run one after another.
MoveCall(dst, src) == Call("move_ctor", dst, src, 0, Null, Null, {})

\* head(std::move(other.head))
MoveHead(t, dst, src) ==
    /\ pc[t] = "idle"
    /\ head[dst] = Null /\ tail[dst] = Null /\ count[dst] = 0
    /\ \A u \in Threads : op[u].name # "move_ctor"
    /\ head' = [head EXCEPT ![dst] = head[src], ![src] = Null]
    /\ op' = [op EXCEPT ![t] = MoveCall(dst, src)]
    /\ result' = [result EXCEPT ![t] = NoResult]
    /\ pc' = [pc EXCEPT ![t] = "move_tail"]
    /\ UNCHANGED <<tail, count, next, prev, data, alive, it, writer, readers>>

\* tail(std::move(other.tail))
MoveTail(t) ==
    /\ pc[t] = "move_tail"
    /\ tail' = [tail EXCEPT ![op[t].l] = tail[op[t].other], ![op[t].other] = Null]
    /\ pc' = [pc EXCEPT ![t] = "move_count"]
    /\ UNCHANGED <<head, count, next, prev, data, alive, it, writer, readers, op, result>>

\* count(other.count.load())
MoveCount(t) ==
    /\ pc[t] = "move_count"
    /\ count' = [count EXCEPT ![op[t].l] = count[op[t].other]]
    /\ pc' = [pc EXCEPT ![t] = "move_zero"]
    /\ UNCHANGED <<head, tail, next, prev, data, alive, it, writer, readers, op, result>>

\* other.count = 0
MoveZero(t) ==
    /\ pc[t] = "move_zero"
    /\ count' = [count EXCEPT ![op[t].other] = 0]
    /\ result' = [result EXCEPT ![t] = Void]
    /\ pc' = [pc EXCEPT ![t] = "done"]
    /\ UNCHANGED <<head, tail, next, prev, data, alive, it, writer, readers, op>>

\* The move constructor run with nothing in between.
MoveAll(s, dst, src) ==
    [s EXCEPT !.head = [@ EXCEPT ![dst] = s.head[src], ![src] = Null],
              !.tail = [@ EXCEPT ![dst] = s.tail[src], ![src] = Null],
              !.count = [@ EXCEPT ![dst] = s.count[src], ![src] = 0]]

\* The call is over: the caller has its result and goes on.
Return(t) ==
    /\ pc[t] = "done"
    /\ pc' = [pc EXCEPT ![t] = "idle"]
    /\ op' = [op EXCEPT ![t] = NoCall]
    /\ result' = [result EXCEPT ![t] = NoResult]
    /\ UNCHANGED <<heapvars, writer, readers>>

\* ------------------------------------------------- the state after construction
EmptyHeap ==
    [head |-> [l \in ListIds |-> Null], tail |-> [l \in ListIds |-> Null],
     count |-> [l \in ListIds |-> 0],
     next |-> [n \in Nodes |-> Null], prev |-> [n \in Nodes |-> Null],
     data |-> [n \in Nodes |-> 0], alive |-> {},
     it |-> [t \in Threads |-> Null]]

InitThreads ==
    /\ writer = [l \in ListIds |-> NoThread]
    /\ readers = [l \in ListIds |-> {}]
    /\ pc = [t \in Threads |-> "idle"]
    /\ op = [t \in Threads |-> NoCall]
    /\ result = [t \in Threads |-> NoResult]
    /\ calls = [t \in Threads |-> 0]

InitHeap(s) ==
    /\ head = s.head
    /\ tail = s.tail
    /\ count = s.count
    /\ next = s.next
    /\ prev = s.prev
    /\ data = s.data
    /\ alive = s.alive
    /\ it = s.it
    /\ nodes = <<>>
    /\ marked = [n \in Nodes |-> FALSE]
    /\ held = [h \in Handles |-> Null]
    /\ isUpdating = FALSE
    /\ updateFuture = NoTask
    /\ task = [k \in Tasks |-> "none"]
    /\ stopReturned = FALSE

\* The heap after push_back of the elements of q, in order, on list l.
RECURSIVE Built(_, _, _)
Built(s, l, q) ==
    IF q = <<>> THEN s ELSE Built(push_back(s, l, Head(q)).s, l, Tail(q))

SeqsUpTo(n) == UNION {[1..k -> Values] : k \in 0..n}

\* A call begun by thread t, of at most b.
Count(t, b) ==
    /\ calls[t] < b
    /\ calls' = [calls EXCEPT ![t] = @ + 1]
    /\ UNCHANGED <<start, log, poolvars, monvars>>

\* A step inside a call, or its end.
Within == UNCHANGED <<calls, start, log, poolvars, monvars>>

\* ------------------- one caller making any calls on list A (B is the other list)
Init ==
    /\ \E q \in SeqsUpTo(MaxInit) : InitHeap(Built(EmptyHeap, "A", q)) /\ start = q /\ log = <<>>
    /\ InitThreads

Next ==
    \/ \E c \in CallsOn(Cur, 1, "A") : LockExclusive(1, c) /\ Count(1, MaxSeq)
    \/ \E c \in CallsOn(Cur, 1, "A") : LockShared(1, c) /\ Count(1, MaxSeq)
    \/ \E c \in TryCallsOn(Cur, 1, "A") : TryLockOwned(1, c) /\ Count(1, MaxSeq)
    \/ LockOther(1) /\ Within
    \/ BodyReturn(1) /\ Within
    \/ BodyRelockThrows(1) /\ Within
    \/ BodyRelockHangs(1) /\ Within
    \/ BodySpins(1) /\ Within
    \/ Begin(1, "A") /\ Count(1, MaxSeq)
    \/ Advance(1) /\ Count(1, MaxSeq)
    \/ Return(1) /\ Within

Spec == Init /\ [][Next]_vars

\* --------------------------- two callers on list A, and merging A and B
ConcCalls ==
    {Call("push_back", "A", "A", v, Null, Null, {}) : v \in Values}
    \cup {Call("pop_front", "A", "A", 0, Null, Null, {})}
    \cup {Call("merge", l, Other(l), 0, Null, Null, {}) : l \in {"A", "B"}}

ConcInit ==
    /\ \E q \in SeqsUpTo(MaxConcInit) : InitHeap(Built(EmptyHeap, "A", q)) /\ start = q /\ log = <<>>
    /\ InitThreads

ConcNext ==
    \/ \E t \in Threads : \E c \in ConcCalls : LockExclusive(t, c) /\ Count(t, MaxCalls)
    \/ \E t \in Threads : LockShared(t, Call("front", "A", "A", 0, Null, Null, {}))
                             /\ Count(t, MaxCalls)
    \/ \E t \in Threads : \E c \in TryCallsOn(Cur, t, "A") :
            TryLockOwned(t, c) /\ Count(t, MaxCalls)
    \/ \E t \in Threads : \E c \in TryCallsOn(Cur, t, "A") :
            TryLockBusy(t, c) /\ Count(t, MaxCalls)
    \/ \E t \in Threads : LockOther(t) /\ Within
    \/ \E t \in Threads : BodyReturn(t) /\ Within
    \/ \E t \in Threads : BodyRelockThrows(t) /\ Within
    \/ \E t \in Threads : BodyRelockHangs(t) /\ Within
    \/ \E t \in Threads : Begin(t, "A") /\ Count(t, MaxCalls)
    \/ \E t \in Threads : Return(t) /\ Within

ConcSpec == ConcInit /\ [][ConcNext]_vars

\* ------------------ list_example: two threads, five try_push_back each
PushesPerThread == 5

\* Thread 1 pushes 0..4, thread 2 pushes 5..9.
ExampleValue(t) == (t - 1) * PushesPerThread + calls[t]

ExampleCall(t) == Call("try_push_back", "A", "A", ExampleValue(t), Null, Null, {})

\* std::terminate has ended the program.
Terminated == \E t \in Threads : pc[t] = "terminated"

\* t1.join(); t2.join() have returned.
Joined == \A t \in Threads : pc[t] = "finished"

ExampleInit ==
    /\ InitHeap(EmptyHeap)
    /\ start = <<>>
    /\ log = <<>>
    /\ writer = [l \in ListIds |-> NoThread]
    /\ readers = [l \in ListIds |-> {}]
    /\ pc = [t \in Threads |-> "unstarted"]
    /\ op = [t \in Threads |-> NoCall]
    /\ result = [t \in Threads |-> NoResult]
    /\ calls = [t \in Threads |-> 0]

\* std::thread t1(...), then std::thread t2(...).
Spawn(t) ==
    /\ pc[t] = "unstarted"
    /\ \A u \in Threads : u < t => pc[u] # "unstarted"
    /\ pc' = [pc EXCEPT ![t] = "idle"]
    /\ UNCHANGED <<heapvars, writer, readers, op, result>>

\* The value of try_push_back is dropped and the loop goes on.
LoopNext(t) ==
    /\ result[t] # SystemError
    /\ Return(t)

\* The loop is over and the thread function returns.
LoopEnd(t) ==
    /\ pc[t] = "idle"
    /\ calls[t] = PushesPerThread
    /\ pc' = [pc EXCEPT ![t] = "finished"]
    /\ UNCHANGED <<heapvars, writer, readers, op, result>>

\* std::system_error leaves the thread function: std::terminate.
Terminate(t) ==
    /\ pc[t] = "done"
    /\ result[t] = SystemError
    /\ pc' = [pc EXCEPT ![t] = "terminated"]
    /\ UNCHANGED <<heapvars, writer, readers, op, result>>

ExampleNext ==
    \/ \E t \in Threads : ~Terminated /\ Spawn(t) /\ Within
    \/ \E t \in Threads : ~Terminated /\ TryLockOwned(t, ExampleCall(t))
                             /\ Count(t, PushesPerThread)
    \/ \E t \in Threads : ~Terminated /\ TryLockBusy(t, ExampleCall(t))
                             /\ Count(t, PushesPerThread)
    \/ \E t \in Threads : ~Terminated /\ BodyRelockThrows(t) /\ Within
    \/ \E t \in Threads : ~Terminated /\ BodyRelockHangs(t) /\ Within
    \/ \E t \in Threads : ~Terminated /\ LoopNext(t) /\ Within
    \/ \E t \in Threads : ~Terminated /\ LoopEnd(t) /\ Within
    \/ \E t \in Threads : ~Terminated /\ Terminate(t) /\ Within

ExampleSpec == ExampleInit /\ [][ExampleNext]_vars

\* ------- one call by each of two threads on list A, one of them moving it
LinCalls ==
    {Call("push_back", "A", "A", v, Null, Null, {}) : v \in Values}
    \cup {Call("pop_front", "A", "A", 0, Null, Null, {})}

OneCall(t) == Count(t, 1)

LinNext ==
    \/ \E t \in Threads : \E c \in LinCalls : LockExclusive(t, c) /\ OneCall(t)
    \/ \E t \in Threads : LockShared(t, Call("front", "A", "A", 0, Null, Null, {}))
                             /\ OneCall(t)
    \/ \E t \in Threads : BodyReturn(t) /\ Within
    \/ \E t \in Threads : Begin(t, "A") /\ OneCall(t)
    \/ \E t \in Threads : MoveHead(t, "C", "A") /\ OneCall(t)
    \/ \E t \in Threads : MoveTail(t) /\ Within
    \/ \E t \in Threads : MoveCount(t) /\ Within
    \/ \E t \in Threads : MoveZero(t) /\ Within

LinSpec == Init /\ [][LinNext]_vars

\* ------ one caller that builds a list from empty with push_back and iterates
PushInit ==
    /\ InitHeap(EmptyHeap)
    /\ start = <<>>
    /\ log = <<>>
    /\ InitThreads

\* push_back(v) is called and v is recorded.
PushCall(t, v) ==
    /\ LockExclusive(t, Call("push_back", "A", "A", v, Null, Null, {}))
    /\ calls[t] < MaxSeq
    /\ calls' = [calls EXCEPT ![t] = @ + 1]
    /\ log' = Append(log, v)
    /\ UNCHANGED <<start, poolvars, monvars>>

PushNext ==
    \/ \E v \in Values : PushCall(1, v)
    \/ BodyReturn(1) /\ Within
    \/ Begin(1, "A") /\ Count(1, MaxSeq)
    \/ Advance(1) /\ Count(1, MaxSeq)
    \/ Return(1) /\ Within

PushSpec == PushInit /\ [][PushNext]_vars

\* ------ one caller with two lists, A and B, moving B's elements into A
TwoInit ==
    /\ \E qa \in SeqsUpTo(MaxInit) : \E qb \in SeqsUpTo(MaxInit) :
          /\ Len(qa) + Len(qb) <= MaxNodes
          /\ InitHeap(Built(Built(EmptyHeap, "A", qa), "B", qb))
          /\ start = qa
    /\ log = <<>>
    /\ InitThreads

TwoCalls(s, t) ==
    {Call("splice", "A", "B", 0, p, Null, {}) : p \in ValidPos(s, t, "A")}
    \cup {Call("merge", "A", "B", 0, Null, Null, {})}

TwoNext ==
    \/ \E c \in TwoCalls(Cur, 1) : LockExclusive(1, c) /\ Count(1, MaxSeq)
    \/ LockOther(1) /\ Within
    \/ BodyRelockThrows(1) /\ Within
    \/ BodyRelockHangs(1) /\ Within
    \/ Begin(1, "A") /\ Count(1, MaxSeq)
    \/ Advance(1) /\ Count(1, MaxSeq)
    \/ Return(1) /\ Within

TwoSpec == TwoInit /\ [][TwoNext]_vars

\* ------ one caller that keeps an iterator across calls that unlink its node
\* erase at the caller's iterator, whatever has become of its node, and the
\* calls that unlink nodes.
IterCalls(s, t, l) ==
    {Call("erase", l, l, 0, s.it[t], Null, {})}
    \cup {Call(n, l, l, 0, Null, Null, {}) : n \in {"pop_front", "pop_back", "clear", "unique"}}
    \cup {Call("remove", l, l, v, Null, Null, {}) : v \in Values}

IterNext ==
    \/ \E c \in IterCalls(Cur, 1, "A") : LockExclusive(1, c) /\ Count(1, MaxSeq)
    \/ BodyReturn(1) /\ Within
    \/ Begin(1, "A") /\ Count(1, MaxSeq)
    \/ Advance(1) /\ Count(1, MaxSeq)
    \/ Return(1) /\ Within

IterSpec == Init /\ [][IterNext]_vars

\* ------ one caller with two lists, A and B: assignment, merge and splice of
\* B into A, and list C move-constructed from A
AssignCalls(s, t) ==
    {Call(n, "A", o, 0, Null, Null, {}) : n \in AssignOps, o \in {"A", "B"}}

AssignNext ==
    \/ \E c \in AssignCalls(Cur, 1) : LockAssign(1, c) /\ Count(1, MaxSeq)
    \/ \E c \in AssignCalls(Cur, 1) : SelfAssign(1, c) /\ Count(1, MaxSeq)
    \/ \E c \in TwoCalls(Cur, 1) : LockExclusive(1, c) /\ Count(1, MaxSeq)
    \/ LockOther(1) /\ Within
    \/ LockOtherShared(1) /\ Within
    \/ BodyRelockThrows(1) /\ Within
    \/ BodyRelockTerminates(1) /\ Within
    \/ BodyRelockHangs(1) /\ Within
    \/ MoveHead(1, "C", "A") /\ Count(1, MaxSeq)
    \/ MoveTail(1) /\ Within
    \/ MoveCount(1) /\ Within
    \/ MoveZero(1) /\ Within
    \/ Begin(1, "A") /\ Count(1, MaxSeq)
    \/ Advance(1) /\ Count(1, MaxSeq)
    \/ Return(1) /\ Within

AssignSpec == TwoInit /\ [][AssignNext]_vars

\* ------ one caller with list A and list C copy-constructed from it
CopyCalls(l) ==
    {Call("push_back", l, l, v, Null, Null, {}) : v \in Values}
    \cup {Call(n, l, l, 0, Null, Null, {}) : n \in {"pop_front", "pop_back", "reverse"}}

CopyNext ==
    \/ \E l \in {"A", "C"} : \E c \in CopyCalls(l) : LockExclusive(1, c) /\ Count(1, MaxSeq)
    \/ CopyLock(1, "C", "A") /\ Count(1, MaxSeq)
    \/ BodyReturn(1) /\ Within
    \/ BodySpins(1) /\ Within
    \/ Return(1) /\ Within

CopySpec == Init /\ [][CopyNext]_vars

\* ---------------------------------------------- NodeAllocator (List.h)
\* The allocator's view: the heap, the free set and the marked flags.
PoolCur == [s |-> Cur, nodes |-> nodes, marked |-> marked, node |-> Null]

InPool(q) == {q[i] : i \in 1..Len(q)}

\* allocate(value): a fresh node when the free set is empty, else the node at
\* its back with data assigned; `node` is the shared_ptr returned.
allocate(p, value) ==
    IF p.nodes = <<>>
    THEN LET n == FreeNode(p.s)
         IN [p EXCEPT !.s = create_node(p.s, n, value), !.marked[n] = FALSE, !.node = n]
    ELSE LET n == p.nodes[Len(p.nodes)]
         IN [p EXCEPT !.s.data[n] = value,
                      !.nodes = SubSeq(p.nodes, 1, Len(p.nodes) - 1),
                      !.node = n]

deallocate_uncleared(p, node) ==
    IF node = Null THEN p
    ELSE IF Len(p.nodes) < POOL_SIZE
         THEN [p EXCEPT !.nodes = Append(p.nodes, node)]
         ELSE p

\* deallocate(node): below POOL_SIZE the node is cleared and pushed on the
\* free set; at POOL_SIZE the argument goes out of scope and nothing else.
deallocate(p, node) ==
    IF node = Null THEN p
    ELSE IF Len(p.nodes) < POOL_SIZE
         THEN [p EXCEPT !.s.next[node] = Null, !.s.prev[node] = Null,
                        !.marked[node] = FALSE,
                        !.nodes = Append(p.nodes, node)]
         ELSE p

\* The allocator's call is over: references dropped on the way destroy their
\* nodes; the free set and the user's handles keep theirs.
PoolCommit(p, hs) ==
    /\ Commit(Collect(p.s, InPool(p.nodes) \cup {hs[h] : h \in Handles}))
    /\ nodes' = p.nodes
    /\ marked' = p.marked
    /\ held' = hs

\* A user of the allocator: one thread with the handles held[h].
\* held[h] = allocator.allocate(v)
Allocate(h, v) ==
    /\ nodes = <<>> => CanAllocate(Cur)
    /\ LET p == allocate(PoolCur, v) IN
        /\ PoolCommit(p, [held EXCEPT ![h] = p.node])
        /\ op' = [op EXCEPT ![1] = Call("allocate", "A", "A", v, Null, Null, {})]
        /\ result' = [result EXCEPT ![1] = IterTo(p.node)]

\* allocator.deallocate(std::move(held[h]))
Deallocate(h) ==
    /\ held[h] # Null
    /\ LET p == deallocate(PoolCur, held[h]) IN
        /\ PoolCommit(p, [held EXCEPT ![h] = Null])
        /\ op' = [op EXCEPT ![1] = Call("deallocate", "A", "A", 0, held[h], Null, {})]
        /\ result' = [result EXCEPT ![1] = Void]

\* The user links two nodes it holds, as List::link_nodes does ...
LinkHeld(h, g) ==
    /\ held[h] # Null /\ held[g] # Null
    /\ next' = [next EXCEPT ![held[h]] = held[g]]
    /\ prev' = [prev EXCEPT ![held[g]] = held[h]]
    /\ op' = [op EXCEPT ![1] = Call("link_nodes", "A", "A", 0, Null, Null, {})]
    /\ result' = [result EXCEPT ![1] = Void]
    /\ UNCHANGED <<head, tail, count, data, alive, it, nodes, marked, held>>

\* ... and sets Node::marked, a public member.
MarkHeld(h) ==
    /\ held[h] # Null /\ ~marked[held[h]]
    /\ marked' = [marked EXCEPT ![held[h]] = TRUE]
    /\ op' = [op EXCEPT ![1] = Call("marked", "A", "A", 0, Null, Null, {})]
    /\ result' = [result EXCEPT ![1] = Void]
    /\ UNCHANGED <<heapvars, nodes, held>>

PoolFixed == UNCHANGED <<writer, readers, pc, calls, start, log, monvars>>

PoolInit ==
    /\ InitHeap(EmptyHeap)
    /\ start = <<>>
    /\ log = <<>>
    /\ InitThreads

PoolNext ==
    \/ \E h \in Handles : \E v \in Values : Allocate(h, v) /\ PoolFixed
    \/ \E h \in Handles : Deallocate(h) /\ PoolFixed
    \/ \E h \in Handles : \E g \in Handles \ {h} : LinkHeld(h, g) /\ PoolFixed
    \/ \E h \in Handles : MarkHeld(h) /\ PoolFixed

PoolSpec == PoolInit /\ [][PoolNext]_vars

\* ------------------------------------------------------------ properties
\* No call is inside list l: every public operation begun on it has completed.
Completed(l) == Free(l)

\* The elements of list l as forward iteration from begin() meets them.
ElemsOf(s, l) ==
    LET chain == Walk(s, s.head[l], MaxNodes + 1)
    IN [i \in 1..Len(chain) |-> s.data[chain[i]]]

Elems(l) == ElemsOf(Cur, l)

\* A step leaves list l as it was: head, tail, count and the elements.
Untouched(l) ==
    /\ head'[l] = head[l]
    /\ tail'[l] = tail[l]
    /\ count'[l] = count[l]
    /\ Elems(l)' = Elems(l)

\* C1: after every completed public operation, count == 0 iff head is null
\* iff tail is null.
C1_EmptyIffNull ==
    \A l \in ListIds : Completed(l) =>
        /\ (count[l] = 0) <=> (head[l] = Null)
        /\ (head[l] = Null) <=> (tail[l] = Null)

\* C2: after every completed public operation, following next from head
\* exactly count times reaches null, and the last node met is tail.
C2_CountIsChainLength ==
    \A l \in ListIds : Completed(l) =>
        /\ count[l] >= 0
        /\ Len(Walk(Cur, head[l], count[l] + 1)) = count[l]
        /\ tail[l] = IF count[l] = 0 THEN Null ELSE Walk(Cur, head[l], count[l])[count[l]]

\* What a caller can see of heap s: each list's elements and its size().
View(s) == [l \in ListIds |-> <<ElemsOf(s, l), s.count[l]>>]

\* C3: the two threads of list_example (try_push_back of 0..4 and of 5..9) are
\* joined and leave the list with size() = 10 and each of 0..9 in it once, on
\* every interleaving: no thread ends the program or waits for ever before the
\* joins, and once both are joined the ten values are there.
C3_TenValuesAfterJoin ==
    /\ \A t \in Threads : pc[t] \notin {"terminated", "hung"}
    /\ Joined =>
        /\ count["A"] = 2 * PushesPerThread
        /\ Len(Elems("A")) = 2 * PushesPerThread
        /\ \A v \in 0..(2 * PushesPerThread - 1) :
               Cardinality({i \in 1..Len(Elems("A")) : Elems("A")[i] = v}) = 1

\* C4: a try_* call made while another thread holds the list's lock returns
\* false in that very step, without waiting, and the list's elements and count
\* are as before.
C4_BusyReturnsFalse ==
    [][\A t \in Threads : \A l \in ListIds :
        (/\ pc[t] = "idle" /\ pc'[t] # "idle"
         /\ op'[t].name \in TryOps /\ op'[t].l = l /\ ~Free(l))
        => /\ pc'[t] = "done"
           /\ result'[t] = Bool(FALSE)
           /\ Untouched(l)]_vars

C4_Witness ==
    /\ pc[2] = "done" /\ op[2].name = "try_push_back" /\ result[2] = Bool(FALSE)
    /\ writer["A"] = 1 /\ pc[1] = "body" /\ count["A"] > 0

\* C5: a try_* operation that has acquired the exclusive lock completes,
\* returns true and leaves the list as the blocking operation of the same name
\* leaves it from the same state (wherever that operation returns normally).
C5_TryAsBlocking ==
    [][\A t \in Threads :
        LET o == BodyOf(Cur, Blocking(op[t])) IN
        (/\ pc[t] = "body" /\ op[t].name \in TryOps /\ pc'[t] # "body"
         /\ o.kind = "return" /\ o.res.kind # "out_of_range")
        => /\ pc'[t] = "done"
           /\ result'[t] = Bool(TRUE)
           /\ View(Cur)' = View(Collect(o.s, {}))]_vars

\* Each of two threads holds its own list's lock inside merge and waits for
\* the other's.
CrossHeld ==
    \E t, u \in Threads :
        /\ t # u
        /\ pc[t] = "lock_other" /\ op[t].name = "merge"
        /\ pc[u] = "lock_other" /\ op[u].name = "merge"
        /\ op[t].l = "A" /\ op[t].other = "B" /\ writer["A"] = t
        /\ op[u].l = "B" /\ op[u].other = "A" /\ writer["B"] = u

\* C6: when A.merge(B) and B.merge(A) each hold their own list's lock and wait
\* for the other's, nothing happens ever after: no step leaves that state.
C6_MergeDeadlock == [][~CrossHeld]_vars

C6_Witness == CrossHeld /\ calls = [t \in Threads |-> 1]

\* A call by thread t run on heap s with nothing in between.
SeqApply(s, t, c) ==
    IF c.name = "move_ctor"
    THEN [s |-> Collect(MoveAll(s, c.l, c.other), {}), res |-> Void]
    ELSE IF c.name = "begin"
    THEN [s |-> Collect([s EXCEPT !.it[t] = s.head[c.l]], {}), res |-> IterTo(s.head[c.l])]
    ELSE LET o == BodyOf(s, c)
         IN [s |-> Collect(Keep(o.s, t, o.res), {}), res |-> o.res]

\* C7: when both threads' calls have returned, their results and the lists'
\* elements and sizes are those of the two calls run one after the other, in
\* one order or the other, from the list the behaviour began with.
C7_Linearizable ==
    (\A t \in Threads : pc[t] = "done") =>
        \E a \in Threads : \E b \in Threads \ {a} :
            LET s0 == Built(EmptyHeap, "A", start)
                r1 == SeqApply(s0, a, op[a])
                r2 == SeqApply(r1.s, b, op[b])
            IN /\ r1.res = result[a]
               /\ r2.res = result[b]
               /\ View(r2.s) = View(Cur)

\* Thread u is inside an operation that changes list l.
InsideMutating(u, l) ==
    \/ writer[l] = u
    \/ pc[u] \in {"move_tail", "move_count", "move_zero"} /\ l \in {op[u].l, op[u].other}

\* This step of thread t reads or writes head, tail, count or a link of list l.
Touches(t, l) ==
    \/ pc[t] = "idle" /\ pc'[t] = "done" /\ op'[t].name = "begin" /\ op'[t].l = l
    \/ pc[t] = "idle" /\ pc'[t] = "move_tail" /\ l \in {op'[t].l, op'[t].other}
    \/ /\ pc[t] \in {"move_tail", "move_count", "move_zero"} /\ pc'[t] # pc[t]
       /\ l \in {op[t].l, op[t].other}
    \/ pc[t] = "body" /\ pc'[t] # "body" /\ l \in {op[t].l, op[t].other}

\* C8: no thread reads or writes head, tail, count or a link of a list while
\* another thread is inside a mutating operation of that list; a writer never
\* overlaps a reader or another writer.
C8_NoAccessBesideWriter ==
    [][/\ \A l \in ListIds : writer[l] # NoThread => readers[l] = {}
       /\ \A t \in Threads : \A l \in ListIds :
            Touches(t, l) => \A u \in Threads \ {t} : ~InsideMutating(u, l)]_vars

\* C9: front(), back(), pop_front() and pop_back() on a list with count == 0
\* throw std::out_of_range and leave the list as it was.
C9_EmptyAccessThrows ==
    [][\A t \in Threads :
         (/\ pc[t] = "body"
          /\ op[t].name \in {"front", "back", "pop_front", "pop_back"}
          /\ count[op[t].l] = 0
          /\ pc'[t] # "body")
         => /\ result'[t] = OutOfRange
            /\ Untouched(op[t].l)]_vars

\* C10: erase(end()) returns end() and changes neither size() nor the
\* elements, on an empty list and on a non-empty one.
C10_EraseEndNoOp ==
    [][\A t \in Threads :
         (pc[t] = "body" /\ op[t].name = "erase" /\ op[t].pos = Null /\ pc'[t] # "body")
         => /\ pc'[t] = "done"
            /\ result'[t] = IterTo(Null)
            /\ Untouched(op[t].l)]_vars

C10_Witness ==
    /\ pc[1] = "done" /\ op[1].name = "erase" /\ op[1].pos = Null
    /\ result[1] = IterTo(Null)
    /\ count["A"] > 0 /\ head["A"] # Null

\* C11: erase(pos) with pos not a position of the list (end(), or an iterator
\* whose node an earlier call unlinked) returns end() and leaves head, tail,
\* size() and the elements as they were.
C11_EraseInvalidNoOp ==
    [][\A t \in Threads : \A l \in ListIds :
        (/\ pc[t] = "body" /\ op[t].name = "erase" /\ op[t].l = l
         /\ op[t].pos \notin Linked(Cur, l) /\ pc'[t] # "body")
        => /\ result'[t] = IterTo(Null)
           /\ Untouched(l)]_vars

\* C12: from an empty list, after push_back of v1..vn has returned, forward
\* iteration from begin() to end() meets exactly v1, ..., vn and size() = n.
C12_PushBackOrder ==
    pc[1] \in {"idle", "done"} =>
        /\ Elems("A") = log
        /\ count["A"] = Len(log)

C12_Witness ==
    /\ pc[1] = "done" /\ op[1].name = "push_back"
    /\ Len(log) = MaxNodes /\ log[1] # log[2]
    /\ Elems("A") = log

\* The number of elements of list l in front of position pos (all of them for
\* end()).
Before(l, pos) ==
    LET chain == Walk(Cur, head[l], MaxNodes + 1)
    IN IF pos = Null THEN Len(chain)
       ELSE Cardinality({i \in 1..Len(chain) :
                \A j \in 1..i : chain[j] # pos})

\* Thread t's call named n, on two distinct lists, ends with this step.
Ends(t, n) ==
    /\ pc[t] = "body" /\ pc'[t] # "body"
    /\ op[t].name = n /\ op[t].l # op[t].other

\* C13: splice(pos, other) on distinct lists returns with this holding its
\* elements before pos, then other's elements in their order, then its
\* elements from pos on, and with other empty.
C13_SpliceTransfers ==
    [][\A t \in Threads : Ends(t, "splice") =>
        LET k == Before("A", op[t].pos)
        IN /\ pc'[t] = "done" /\ result'[t] = Void
           /\ Elems("A")' = SubSeq(Elems("A"), 1, k) \o Elems("B")
                               \o SubSeq(Elems("A"), k + 1, Len(Elems("A")))
           /\ Elems("B")' = <<>>]_vars

\* C14: after splice(pos, other) on distinct lists this.size() is the sum of
\* the two sizes before the call and other.size() is 0.
C14_SpliceSizes ==
    [][\A t \in Threads : Ends(t, "splice") =>
        /\ pc'[t] = "done" /\ result'[t] = Void
        /\ count'["A"] = count["A"] + count["B"]
        /\ count'["B"] = 0]_vars

\* q is in ascending order.
Ascending(q) == \A i \in 1..(Len(q) - 1) : q[i] <= q[i + 1]

\* How many times v occurs in q.
Occurs(q, v) == Cardinality({i \in 1..Len(q) : q[i] = v})

\* C15: merge of two ascending lists returns with this ascending and holding
\* exactly the elements of both, and with other empty.
C15_MergeSorted ==
    [][\A t \in Threads :
        (Ends(t, "merge") /\ Ascending(Elems("A")) /\ Ascending(Elems("B"))) =>
        /\ pc'[t] = "done" /\ result'[t] = Void
        /\ Ascending(Elems("A")')
        /\ \A v \in Values : Occurs(Elems("A")', v) = Occurs(Elems("A"), v) + Occurs(Elems("B"), v)
        /\ Elems("B")' = <<>>]_vars

\* q with every element that equals its immediate predecessor left out.
Dedup(q) ==
    LET keep == {i \in 1..Len(q) : i = 1 \/ q[i] # q[i - 1]}
        nth(k) == CHOOSE i \in keep : Cardinality({j \in keep : j <= i}) = k
    IN [k \in 1..Cardinality(keep) |-> q[nth(k)]]

\* C16: unique() returns with exactly the elements equal to their immediate
\* predecessor removed, and size() smaller by their number.
C16_UniqueAdjacent ==
    [][\A t \in Threads : \A l \in ListIds :
        (pc[t] = "body" /\ pc'[t] # "body" /\ op[t].name = "unique" /\ op[t].l = l) =>
        /\ pc'[t] = "done" /\ result'[t] = Void
        /\ Elems(l)' = Dedup(Elems(l))
        /\ count'[l] = count[l] - (Len(Elems(l)) - Len(Dedup(Elems(l))))]_vars

\* reverse() called twice on list l of heap s, each call run to its end.
ReverseTwice(s, l) ==
    LET r1 == reverse(s, l)
    IN IF r1.kind # "return" THEN r1 ELSE reverse(Collect(r1.s, {}), l)

\* C17: whatever list the caller has, two calls of reverse() return and leave
\* the elements met by forward iteration from begin(), and size(), as they were.
C17_ReverseTwiceRestores ==
    pc[1] = "idle" =>
        LET r == ReverseTwice(Cur, "A")
        IN /\ r.kind = "return"
           /\ ElemsOf(Collect(r.s, {}), "A") = Elems("A")
           /\ r.s.count["A"] = count["A"]

\* C18: whatever list the caller has, sort() returns, a second sort() returns,
\* and the second leaves the elements as the first left them.
C18_SortTwiceAsOnce ==
    pc[1] = "idle" =>
        LET r1 == sort(Cur, "A")
        IN /\ r1.kind = "return"
           /\ LET once == Collect(r1.s, {})
                  r2 == sort(once, "A")
              IN /\ r2.kind = "return"
                 /\ ElemsOf(Collect(r2.s, {}), "A") = ElemsOf(once, "A")

\* C19: after every completed public operation, the prev of the head node is
\* null and, for every node n reachable from head with a next, the prev of
\* that next refers to n.
C19_PrevConsistent ==
    \A l \in ListIds : Completed(l) =>
        /\ head[l] # Null => prev[head[l]] = Null
        /\ \A n \in Linked(Cur, l) : next[n] # Null => prev[next[n]] = n

\* C20: after every completed public operation no node reachable from head is
\* reachable from itself along next: forward iteration from begin() reaches
\* end().
C20_ForwardAcyclic ==
    \A l \in ListIds : Completed(l) =>
        /\ Acyclic(Cur, l)
        /\ \A n \in Linked(Cur, l) : n \notin ReachFrom(Cur, next[n], {})

\* Thread t is inside a two-list operation, past its lock guards.
InTwoListBody(t) ==
    /\ pc[t] \in {"body", "hung"}
    /\ op[t].name \in TwoListOps \cup AssignOps

\* C21 as stated: merge, splice, copy assignment and move assignment hold the
\* exclusive lock of this and the exclusive lock of other while they run.
C21_BothExclusive ==
    \A t \in Threads : InTwoListBody(t) =>
        writer[op[t].l] = t /\ writer[op[t].other] = t

\* C21, amended: merge, splice and move assignment hold the exclusive lock of
\* this and the exclusive lock of other while they run; copy assignment holds
\* the exclusive lock of this and the lock of other in shared mode.
C21_BothLocksHeld ==
    \A t \in Threads : InTwoListBody(t) =>
        /\ writer[op[t].l] = t
        /\ IF op[t].name = "copy_assign"
           THEN t \in readers[op[t].other] /\ writer[op[t].other] = NoThread
           ELSE writer[op[t].other] = t /\ readers[op[t].other] = {}

C21_Witness ==
    /\ pc[1] = "body" /\ op[1].name = "copy_assign"
    /\ writer["A"] = 1 /\ 1 \in readers["B"]
    /\ Elems("A") # <<>> /\ Elems("B") # <<>>

\* Thread t's call named n on list l ends with this step.
EndsOn(t, n, l) ==
    /\ pc[t] = "body" /\ pc'[t] # "body"
    /\ op[t].name = n /\ op[t].l = l

\* C22: the copy constructor returns with the new list holding the elements
\* the source holds, in their order, and no node of the source; afterwards a
\* call that changes the copy leaves the source's elements as they were, and a
\* call that changes the source leaves the copy's.
C22_CopyIsDeep ==
    [][\A t \in Threads :
        /\ EndsOn(t, "copy_ctor", "C") =>
              /\ pc'[t] = "done" /\ result'[t] = Void
              /\ Elems("C")' = Elems("A")
              /\ Elems("A")' = Elems("A")
              /\ Linked(Cur, "C")' \cap Linked(Cur, "A")' = {}
        /\ \A l \in {"A", "C"} : \A n \in ExclusiveOps :
              EndsOn(t, n, l) => \A m \in {"A", "C"} \ {l} : Elems(m)' = Elems(m)]_vars

\* C23: move assignment of B to A returns with A holding B's former elements
\* and size and with B empty (size 0, head and tail null); move construction
\* of C from A leaves C with the elements and size A had and A empty.
C23_MoveLeavesSourceEmpty ==
    [][\A t \in Threads :
        /\ (EndsOn(t, "move_assign", "A") /\ op[t].other = "B") =>
              /\ pc'[t] = "done" /\ result'[t] = Void
              /\ Elems("A")' = Elems("B") /\ count'["A"] = count["B"]
              /\ count'["B"] = 0 /\ head'["B"] = Null /\ tail'["B"] = Null
        /\ (pc[t] = "move_zero" /\ pc'[t] = "done") =>
              /\ Elems("C")' = start /\ count'["C"] = Len(start)
              /\ count'["A"] = 0 /\ head'["A"] = Null /\ tail'["A"] = Null]_vars

\* q back to front.
Rev(q) == [i \in 1..Len(q) |-> q[Len(q) + 1 - i]]

\* C24: reverse() on a list whose forward iteration yields v1..vn returns
\* with forward iteration from begin() ending and yielding vn, ..., v1, and
\* with size() as it was.
C24_ReverseReverses ==
    [][\A t \in Threads : \A l \in ListIds :
        (EndsOn(t, "reverse", l) /\ Acyclic(Cur, l)) =>
            /\ pc'[t] = "done" /\ result'[t] = Void
            /\ Acyclic(Cur, l)'
            /\ Elems(l)' = Rev(Elems(l))
            /\ count'[l] = count[l]]_vars

\* C25: sort() returns with the list holding, in ascending order, exactly the
\* elements it held before (each as many times), and with size() as it was.
C25_SortAscendingPermutation ==
    [][\A t \in Threads : \A l \in ListIds :
        (EndsOn(t, "sort", l) /\ Acyclic(Cur, l)) =>
            /\ pc'[t] = "done" /\ result'[t] = Void
            /\ Ascending(Elems(l)')
            /\ \A v \in Values : Occurs(Elems(l)', v) = Occurs(Elems(l), v)
            /\ count'[l] = count[l]]_vars

\* C26: sort() returns with the nodes reachable from head, and the next and
\* prev link of each, as they were, and the caller's iterator, if it referred
\* to a node of the list, still referring to one.
C26_SortKeepsNodes ==
    [][\A t \in Threads : \A l \in ListIds :
        (EndsOn(t, "sort", l) /\ Acyclic(Cur, l)) =>
            /\ pc'[t] = "done" /\ result'[t] = Void
            /\ Linked(Cur, l)' = Linked(Cur, l)
            /\ \A n \in Linked(Cur, l) : next'[n] = next[n] /\ prev'[n] = prev[n]
            /\ it[t] \in Linked(Cur, l) => it'[t] \in Linked(Cur, l)']_vars

\* C27: when merge(other) ends, every node that was reachable from other.head
\* is reachable from this.head, and no node has been created.
C27_MergeMovesNodes ==
    [][\A t \in Threads : Ends(t, "merge") =>
        /\ Linked(Cur, "B") \subseteq Linked(Cur, "A")'
        /\ alive' \subseteq alive]_vars

\* C28: merge(other) on lists not both ascending returns without an error,
\* with this holding exactly the elements of both (each as many times) and
\* size() the sum of the two sizes, and with other empty.
C28_MergeUnsortedKeepsAll ==
    [][\A t \in Threads :
        (Ends(t, "merge") /\ ~(Ascending(Elems("A")) /\ Ascending(Elems("B")))) =>
            /\ pc'[t] = "done" /\ result'[t] = Void
            /\ \A v \in Values :
                  Occurs(Elems("A")', v) = Occurs(Elems("A"), v) + Occurs(Elems("B"), v)
            /\ count'["A"] = count["A"] + count["B"]
            /\ Elems("B")' = <<>> /\ count'["B"] = 0]_vars

\* C29: begin() reads head with the list's lock held in shared mode: never
\* while another thread holds the list's lock exclusively.
C29_BeginUnderSharedLock ==
    [][\A t \in Threads : \A l \in ListIds :
        (pc[t] = "idle" /\ pc'[t] = "done" /\ op'[t].name = "begin" /\ op'[t].l = l)
            => writer[l] = NoThread]_vars

\* C30: on a list whose forward iteration yields v1..vn, n > 0, pop_front()
\* returns leaving v2..vn and pop_back() returns leaving v1..v(n-1); each
\* makes size() smaller by one.
C30_PopRemovesOneEnd ==
    [][\A t \in Threads : \A l \in ListIds :
        LET q == Elems(l) IN
        /\ (EndsOn(t, "pop_front", l) /\ Acyclic(Cur, l) /\ q # <<>>) =>
              /\ pc'[t] = "done" /\ result'[t] = Void
              /\ Elems(l)' = Tail(q)
              /\ count'[l] = count[l] - 1
        /\ (EndsOn(t, "pop_back", l) /\ Acyclic(Cur, l) /\ q # <<>>) =>
              /\ pc'[t] = "done" /\ result'[t] = Void
              /\ Elems(l)' = SubSeq(q, 1, Len(q) - 1)
              /\ count'[l] = count[l] - 1]_vars

\* q with v put in after its first k elements.
InsertAt(q, k, v) == SubSeq(q, 1, k) \o <<v>> \o SubSeq(q, k + 1, Len(q))

\* C31: insert(pos, v) at a position of the list returns an iterator to a new
\* element v placed just before the one pos refers to, the other elements in
\* their order and size() larger by one; insert(end(), v) returns and leaves
\* the list as push_back(v) leaves it.
C31_InsertBefore ==
    [][\A t \in Threads : \A l \in ListIds :
        (EndsOn(t, "insert", l) /\ Acyclic(Cur, l)) =>
            IF op[t].pos = Null
            THEN /\ pc'[t] = "done" /\ result'[t].kind = "iter"
                 /\ View(Cur)'[l] = View(Collect(push_back(Cur, l, op[t].val).s, {}))[l]
            ELSE op[t].pos \in Linked(Cur, l) =>
                 /\ pc'[t] = "done" /\ result'[t].kind = "iter"
                 /\ result'[t].val \in Linked(Cur, l)'
                 /\ next'[result'[t].val] = op[t].pos
                 /\ data'[result'[t].val] = op[t].val
                 /\ Elems(l)' = InsertAt(Elems(l), Before(l, op[t].pos), op[t].val)
                 /\ count'[l] = count[l] + 1]_vars

\* q without its k-th element.
RemoveAt(q, k) == SubSeq(q, 1, k - 1) \o SubSeq(q, k + 1, Len(q))

\* first = erase(first) called until first == last, each call run to its end.
RECURSIVE EraseEach(_, _, _, _, _)
EraseEach(s, l, first, last, fuel) ==
    IF first = last \/ first = Null \/ fuel = 0 THEN s
    ELSE LET r == erase(s, l, first)
         IN EraseEach(Collect(r.s, {r.res.val, last}), l, r.res.val, last, fuel - 1)

\* C32: erase(pos) at a position of the list returns an iterator to the
\* successor of the element pos refers to (end() for the last), with exactly
\* that element gone and size() smaller by one; erase(first, last) returns
\* last and leaves the list as erase(first) repeated up to last leaves it.
C32_EraseRemovesOne ==
    [][\A t \in Threads : \A l \in ListIds :
        /\ (EndsOn(t, "erase", l) /\ Acyclic(Cur, l) /\ op[t].pos \in Linked(Cur, l)) =>
              /\ pc'[t] = "done" /\ result'[t] = IterTo(next[op[t].pos])
              /\ Elems(l)' = RemoveAt(Elems(l), Before(l, op[t].pos) + 1)
              /\ count'[l] = count[l] - 1
        /\ (EndsOn(t, "erase_range", l) /\ Acyclic(Cur, l)) =>
              /\ pc'[t] = "done" /\ result'[t] = IterTo(op[t].last)
              /\ View(Cur)'[l] =
                    View(Collect(EraseEach(Cur, l, op[t].pos, op[t].last, LoopFuel), {}))[l]]_vars

\* q without its elements that are in P, the others in their order.
Without(q, P) ==
    LET keep == {i \in 1..Len(q) : q[i] \notin P}
        nth(k) == CHOOSE i \in keep : Cardinality({j \in keep : j <= i}) = k
    IN [k \in 1..Cardinality(keep) |-> q[nth(k)]]

\* The values thread t's remove(v) or remove_if(pred) is to drop.
Dropped(t) == IF op[t].name = "remove" THEN {op[t].val} ELSE op[t].P

\* C33: remove(v) and remove_if(pred) return with every matching element
\* gone, wherever it stood, the others in their order, and size() smaller by
\* the number of elements removed.
C33_RemoveAllMatches ==
    [][\A t \in Threads : \A l \in ListIds :
        ((EndsOn(t, "remove", l) \/ EndsOn(t, "remove_if", l)) /\ Acyclic(Cur, l)) =>
            /\ pc'[t] = "done" /\ result'[t] = Void
            /\ Elems(l)' = Without(Elems(l), Dropped(t))
            /\ count'[l] = count[l] - (Len(Elems(l)) - Len(Without(Elems(l), Dropped(t))))]_vars

UnlinkingOps == {"pop_front", "pop_back", "erase", "remove", "remove_if", "unique", "clear"}

\* C35: when a call of pop_front, pop_back, erase, remove, remove_if, unique
\* or clear takes the node an iterator refers to out of the list, that node's
\* next is null afterwards (++ on the iterator gives end()) and its value is
\* the one it held.
C35_UnlinkedNextCleared ==
    [][\A t \in Threads : \A l \in ListIds : \A u \in Threads :
        (/\ pc[t] = "body" /\ pc'[t] # "body" /\ op[t].l = l /\ op[t].name \in UnlinkingOps
         /\ it[u] \in Linked(Cur, l) /\ it'[u] = it[u] /\ it[u] \notin Linked(Cur, l)')
        => /\ it[u] \in alive'
           /\ next'[it[u]] = Null
           /\ data'[it[u]] = data[it[u]]]_vars

\* The operations of C36 that take nodes out of a list, and those that put one in.
ReleasingOps == {"pop_front", "pop_back", "erase", "clear"}
InsertingOps == {"push_front", "push_back", "insert"}

\* C36: a call of pop_front, pop_back, erase or clear that takes a node out of
\* the list returns it to the allocator's free set, which grows while it is
\* below POOL_SIZE and ends with a node that left the list; and an insertion
\* made while the free set is not empty takes the node at its back.
C36_UnlinkedGoesToPool ==
    [][\A t \in Threads : \A l \in ListIds :
        (pc[t] = "body" /\ pc'[t] = "done" /\ op[t].l = l) =>
            /\ (/\ op[t].name \in ReleasingOps
                /\ Linked(Cur, l) \ Linked(Cur, l)' # {}
                /\ Len(nodes) < POOL_SIZE)
               => /\ Len(nodes') > Len(nodes)
                  /\ nodes'[Len(nodes')] \in Linked(Cur, l) \ Linked(Cur, l)'
            /\ (op[t].name \in InsertingOps /\ nodes # <<>>)
               => /\ nodes' = SubSeq(nodes, 1, Len(nodes) - 1)
                  /\ nodes[Len(nodes)] \in Linked(Cur, l)']_vars

\* The operations C37 names, as far as the single caller makes them.
NestedLockOps == {"insert", "erase_range", "sort", "merge", "splice"} \cup AssignOps \cup TryOps

\* C37: with one thread and nobody else holding a lock, a call of insert,
\* erase(first, last), sort, merge, splice, an assignment or a try_* operation
\* on lists whose chains end never locks a mutex its thread holds: the call
\* returns, and not by the std::system_error of a refused lock.
C37_NoRelock ==
    [][\A t \in Threads :
        (/\ pc[t] = "body" /\ pc'[t] # "body"
         /\ op[t].name \in NestedLockOps
         /\ Acyclic(Cur, op[t].l) /\ Acyclic(Cur, op[t].other)
         /\ \A u \in Threads \ {t} : pc[u] \in {"idle", "done"})
        => /\ pc'[t] = "done"
           /\ result'[t] # SystemError]_vars

\* The value thread t's try_pop call leaves in its argument, which held out.
OutAfter(t, out) ==
    IF op[t].name = "try_pop_front" THEN try_pop_front_value(Cur, op[t].l, out)
    ELSE try_pop_back_value(Cur, op[t].l, out)

\* C38: try_pop_front(out) and try_pop_back(out) on a list with count == 0
\* return false, not an exception, and leave out and the list as they were;
\* and when they return true the list has lost the element at that end and
\* out holds its value.
C38_TryPopEmpty ==
    [][\A t \in Threads : \A out \in {0} \cup Values :
        (/\ pc[t] = "body" /\ pc'[t] # "body"
         /\ op[t].name \in {"try_pop_front", "try_pop_back"})
        => /\ count[op[t].l] = 0
              => /\ pc'[t] = "done" /\ result'[t] = Bool(FALSE)
                 /\ Untouched(op[t].l)
                 /\ OutAfter(t, out) = out
           /\ (pc'[t] = "done" /\ result'[t] = Bool(TRUE))
              => /\ Elems(op[t].l) # <<>>
                 /\ count'[op[t].l] = count[op[t].l] - 1
                 /\ IF op[t].name = "try_pop_front"
                    THEN /\ Elems(op[t].l)' = Tail(Elems(op[t].l))
                         /\ OutAfter(t, out) = Head(Elems(op[t].l))
                    ELSE /\ Elems(op[t].l)' = SubSeq(Elems(op[t].l), 1, Len(Elems(op[t].l)) - 1)
                         /\ OutAfter(t, out) = Elems(op[t].l)[Len(Elems(op[t].l))]]_vars

\* --------------------------------- Memory continuous monitoring (Memory.cpp)
\* Threads call startContinuousMonitoring and stopMonitoring on the Memory
\* singleton; each statement of the two functions is a step.  pc[t] is
\* "idle" between calls, op[t] the call in progress or made last (pos: the
\* task of the future the call holds or waits for).
MonCall(name, k) == Call(name, "A", "A", 0, k, Null, {})

MonFixed == UNCHANGED <<heapvars, writer, readers, result, start, log, poolvars>>

Running(k) == task[k] \notin {"none", "finished"}

\* A call of startContinuousMonitoring is under way.
Starting == \E u \in Threads : pc[u] \in {"start_set", "start_async", "start_assign"}

\* if (isUpdating) return;
StartTest(t) ==
    /\ pc[t] = "idle" /\ calls[t] < MaxMonCalls
    /\ calls' = [calls EXCEPT ![t] = @ + 1]
    /\ op' = [op EXCEPT ![t] = MonCall("startContinuousMonitoring", NoTask)]
    /\ pc' = [pc EXCEPT ![t] = IF isUpdating THEN "idle" ELSE "start_set"]
    /\ stopReturned' = FALSE
    /\ UNCHANGED <<isUpdating, updateFuture, task>>
    /\ MonFixed

\* isUpdating = true;
StartSet(t) ==
    /\ pc[t] = "start_set"
    /\ isUpdating' = TRUE
    /\ pc' = [pc EXCEPT ![t] = "start_async"]
    /\ UNCHANGED <<op, calls, updateFuture, task, stopReturned>>
    /\ MonFixed

\* std::async(std::launch::async, ...): a new thread runs the loop.
StartAsync(t) ==
    /\ pc[t] = "start_async"
    /\ \E k \in Tasks :
        /\ task[k] = "none" /\ \A j \in Tasks : j < k => task[j] # "none"
        /\ task' = [task EXCEPT ![k] = "test"]
        /\ op' = [op EXCEPT ![t] = MonCall("startContinuousMonitoring", k)]
    /\ pc' = [pc EXCEPT ![t] = "start_assign"]
    /\ UNCHANGED <<calls, isUpdating, updateFuture, stopReturned>>
    /\ MonFixed

\* updateFuture = <the future std::async returned>: the move assignment
\* releases the shared state updateFuture held, which blocks until that
\* state's task has finished.
StartAssign(t) ==
    /\ pc[t] = "start_assign"
    /\ updateFuture # NoTask => task[updateFuture] = "finished"
    /\ updateFuture' = op[t].pos
    /\ pc' = [pc EXCEPT ![t] = "idle"]
    /\ UNCHANGED <<op, calls, isUpdating, task, stopReturned>>
    /\ MonFixed

\* while (isUpdating)
TaskTest(k) ==
    /\ task[k] = "test"
    /\ task' = [task EXCEPT ![k] = IF isUpdating THEN "update" ELSE "finished"]
    /\ UNCHANGED <<pc, op, calls, isUpdating, updateFuture, stopReturned>>
    /\ MonFixed

\* updateStats(); callback(getStats());
TaskCallback(k) ==
    /\ task[k] = "update"
    /\ task' = [task EXCEPT ![k] = "wait"]
    /\ UNCHANGED <<pc, op, calls, isUpdating, updateFuture, stopReturned>>
    /\ MonFixed

\* updateCV.wait_for(lock, 1s, pred): returns when notified with isUpdating
\* false, or when the second is over.
TaskWait(k) ==
    /\ task[k] = "wait"
    /\ task' = [task EXCEPT ![k] = "test"]
    /\ UNCHANGED <<pc, op, calls, isUpdating, updateFuture, stopReturned>>
    /\ MonFixed

\* if (!isUpdating) return;
StopTest(t) ==
    /\ pc[t] = "idle" /\ calls[t] < MaxMonCalls
    /\ calls' = [calls EXCEPT ![t] = @ + 1]
    /\ op' = [op EXCEPT ![t] = MonCall("stopMonitoring", NoTask)]
    /\ pc' = [pc EXCEPT ![t] = IF isUpdating THEN "stop_set" ELSE "idle"]
    /\ stopReturned' = (stopReturned \/ (~isUpdating /\ ~Starting))
    /\ UNCHANGED <<isUpdating, updateFuture, task>>
    /\ MonFixed

\* isUpdating = false; updateCV.notify_all();
StopSet(t) ==
    /\ pc[t] = "stop_set"
    /\ isUpdating' = FALSE
    /\ pc' = [pc EXCEPT ![t] = "stop_valid"]
    /\ UNCHANGED <<op, calls, updateFuture, task, stopReturned>>
    /\ MonFixed

\* if (updateFuture.valid()) -- read beside a concurrent assignment it gives
\* the value before or after it
StopValid(t) ==
    /\ pc[t] = "stop_valid"
    /\ op' = [op EXCEPT ![t] = MonCall("stopMonitoring", updateFuture)]
    /\ pc' = [pc EXCEPT ![t] = IF updateFuture # NoTask THEN "stop_wait" ELSE "idle"]
    /\ stopReturned' = (stopReturned \/ (updateFuture = NoTask /\ ~Starting))
    /\ UNCHANGED <<calls, isUpdating, updateFuture, task>>
    /\ MonFixed

\* updateFuture.wait();
StopWait(t) ==
    /\ pc[t] = "stop_wait"
    /\ task[op[t].pos] = "finished"
    /\ pc' = [pc EXCEPT ![t] = "idle"]
    /\ stopReturned' = (stopReturned \/ ~Starting)
    /\ UNCHANGED <<op, calls, isUpdating, updateFuture, task>>
    /\ MonFixed

MonInit ==
    /\ InitHeap(EmptyHeap)
    /\ start = <<>>
    /\ log = <<>>
    /\ InitThreads

MonNext ==
    \/ \E t \in Threads : StartTest(t)
    \/ \E t \in Threads : StartSet(t)
    \/ \E t \in Threads : StartAsync(t)
    \/ \E t \in Threads : StartAssign(t)
    \/ \E t \in Threads : StopTest(t)
    \/ \E t \in Threads : StopSet(t)
    \/ \E t \in Threads : StopValid(t)
    \/ \E t \in Threads : StopWait(t)
    \/ \E k \in Tasks : TaskTest(k)
    \/ \E k \in Tasks : TaskCallback(k)
    \/ \E k \in Tasks : TaskWait(k)

\* A thread inside a call goes on, and so does a launched task (wait_for
\* times out); nobody is bound to make a further call.
MonFair ==
    /\ \A t \in Threads : WF_vars(StartSet(t) \/ StartAsync(t) \/ StartAssign(t)
                                   \/ StopSet(t) \/ StopValid(t) \/ StopWait(t))
    /\ \A k \in Tasks : WF_vars(TaskTest(k) \/ TaskCallback(k) \/ TaskWait(k))

MonSpec == MonInit /\ [][MonNext]_vars /\ MonFair

\* Every node of the free set has null next, null prev and marked false.
PoolClean ==
    \A i \in 1..Len(nodes) :
        next[nodes[i]] = Null /\ prev[nodes[i]] = Null /\ ~marked[nodes[i]]

\* The step is a call of the allocator's function n (every step of the
\* allocator's user records its call in op[1]).
Calls(n) == op'[1].name = n

\* C40: every node in NodeAllocator's free set has null next, null prev and
\* marked false, and the free set never holds more than POOL_SIZE nodes;
\* allocate from a non-empty free set hands out its last node, holding the
\* new value and no link; deallocate below capacity puts the node on the
\* free set, and at capacity leaves the free set as it is, without the node.
C40_PoolNodesClean ==
    [][/\ PoolClean' /\ Len(nodes') <= POOL_SIZE
       /\ (Calls("allocate") /\ nodes # <<>>)
          => LET n == result'[1].val IN
             /\ n = nodes[Len(nodes)]
             /\ nodes' = SubSeq(nodes, 1, Len(nodes) - 1)
             /\ next'[n] = Null /\ prev'[n] = Null /\ ~marked'[n]
             /\ data'[n] = op'[1].val
       /\ (Calls("deallocate") /\ Len(nodes) < POOL_SIZE)
          => nodes' = Append(nodes, op'[1].pos)
       /\ (Calls("deallocate") /\ Len(nodes) = POOL_SIZE)
          => nodes' = nodes /\ op'[1].pos \notin InPool(nodes')]_vars

\* The free set is full, and the node handed back last was dropped: it is
\* gone, and nothing but the free set is left.
C40_Witness ==
    /\ Len(nodes) = POOL_SIZE
    /\ op[1].name = "deallocate" /\ op[1].pos \notin alive
    /\ \A h \in Handles : held[h] = Null
    /\ alive = InPool(nodes)

\* Thread t begins a call of the function named n with this step.
Begins(t, n) == calls'[t] # calls[t] /\ op'[t].name = n

\* C39: startContinuousMonitoring called while isUpdating is set launches no
\* task; callback is never invoked once a stopMonitoring call has returned
\* (and no startContinuousMonitoring call was made since); and after a call
\* of stopMonitoring the call returns and the tasks then running leave their
\* loops.
C39_MonitoringStops ==
    /\ [][/\ \A t \in Threads :
              (Begins(t, "startContinuousMonitoring") /\ isUpdating)
              => pc'[t] = "idle" /\ task' = task
          /\ \A k \in Tasks :
              (task[k] = "update" /\ task'[k] = "wait") => ~stopReturned]_vars
    /\ \A t \in Threads :
          (op[t].name = "stopMonitoring" /\ pc[t] # "idle") ~> (pc[t] = "idle")
    /\ \A t \in Threads : \A k \in Tasks :
          (op[t].name = "stopMonitoring" /\ pc[t] = "stop_set" /\ Running(k))
          ~> (task[k] = "finished")

====
